---- MODULE Spec2Model ----
(***************************************************************************)
(* Duplicate detection and resolution engine of capbot_agent.              *)
(*                                                                         *)
(* Similarity scores and thresholds are fixed-point thousandths: the       *)
(* Python float 0.8 is the integer 800, 0.999 is 999, 1.0 is 1000.         *)
(***************************************************************************)
EXTENDS Integers, Sequences, FiniteSets, TLC

(***************************************************************************)
(* Bounds of the model.                                                    *)
(***************************************************************************)
\* longest candidate list handed to the classifier
MaxCands == 2
\* longest similar_topics list in a dict handed directly to the strategist
MaxSimilar == 5

(***************************************************************************)
(* Python values.                                                          *)
(***************************************************************************)
\* A str and a member of a plain Enum are different kinds of value.
Str(s) == [kind |-> "str", value |-> s]
EnumMember(v) == [kind |-> "enum", value |-> v]

\* class DuplicationStatus(Enum): a plain Enum, not a str subclass.
DuplicationStatus ==
    [NO_DUPLICATE        |-> EnumMember("no_duplicate"),
     POTENTIAL_DUPLICATE |-> EnumMember("potential_duplicate"),
     DUPLICATE_FOUND     |-> EnumMember("duplicate_found")]

\* member.value: the str the member was declared with.
ValueOf(member) == Str(member.value)

\* Python ==. A plain Enum member inherits object identity comparison, so it
\* equals only itself and never the str that is its value.
PyEq(a, b) == a = b

None == [kind |-> "none"]

(***************************************************************************)
(* Candidates returned by the similarity index.                            *)
(***************************************************************************)
\* ids written by the indexing code: str(topic_id) is <<topic_id>>,
\* f"{topic.Id}_{version.Id}" is <<topic_id, version_id>>.
CandIds == {<<1>>, <<2, 3>>, <<4>>}

SimVals == {599, 600, 650, 799, 800, 920}

Thresholds == {0, 600, 650, 800, 950, 1000}

ClassifierCands ==
    [id : CandIds, similarity_score : SimVals, title : {"X"}, semester_id : {1}]

RECURSIVE SeqsUpTo(_, _)
SeqsUpTo(S, n) ==
    IF n = 0 THEN {<<>>}
    ELSE LET shorter == SeqsUpTo(S, n - 1)
         IN shorter \cup {Append(s, x) : s \in {q \in shorter : Len(q) = n - 1}, x \in S}

\* the index holds one document per id
DistinctIds(s) == \A i, j \in DOMAIN s : s[i].id = s[j].id => i = j

\* int(s) for a decimal string: shift of the accumulator by the digits of n.
RECURSIVE Shift(_)
Shift(n) == IF n < 10 THEN 10 ELSE 10 * Shift(n \div 10)

\* int(topic["id"]): Python accepts single underscores between digits
\* (PEP 515), so int("2_3") is 23.
RECURSIVE IdToInt(_)
IdToInt(id) ==
    IF Len(id) = 1 THEN id[1]
    ELSE LET front == IdToInt(SubSeq(id, 1, Len(id) - 1))
             last == id[Len(id)]
         IN front * Shift(last) + last

(***************************************************************************)
(* DuplicateDetectionAgent._analyze_similarity_results                     *)
(***************************************************************************)
VeryHighSimilarity == 800
PotentialThreshold == 600
NearDuplicate == 900
FallbackHighSimilarity == 900
TopN == 5

\* what the two generate_text calls of the enhanced analysis can answer:
\* analysis "" also stands for a failed call (_perform_enhanced_analysis
\* returns "" on any exception); recs "raise" is a failed extraction call.
LLMAnswers == [analysis : {"", "txt"}, recs : {"raise", "some"}]

max_similarity(topics) ==
    CHOOSE m \in {topics[i].similarity_score : i \in DOMAIN topics} :
        \A i \in DOMAIN topics : topics[i].similarity_score <= m

AtLeast(topics, bound) == SelectSeq(topics, LAMBDA t : t.similarity_score >= bound)

duplicate_candidates(topics, threshold) ==
    LET above == AtLeast(topics, threshold)
        near_dups == AtLeast(topics, NearDuplicate)
    IN IF above # <<>> THEN above
       ELSE IF near_dups # <<>> THEN near_dups ELSE above

\* mutant: the threshold comparison is exclusive
determine_status_exclusive(topics, threshold) ==
    LET max == max_similarity(topics)
    IN IF max > threshold
       THEN IF max >= VeryHighSimilarity
            THEN [status |-> DuplicationStatus.DUPLICATE_FOUND, message |-> "duplicate"]
            ELSE [status |-> DuplicationStatus.POTENTIAL_DUPLICATE, message |-> "potential"]
       ELSE IF AtLeast(topics, PotentialThreshold) # <<>>
            THEN [status |-> DuplicationStatus.POTENTIAL_DUPLICATE, message |-> "similar"]
            ELSE [status |-> DuplicationStatus.NO_DUPLICATE, message |-> "unique"]

\* mutant: the 0.6 fallback is judged on the first candidate only
determine_status_first_only(topics, threshold) ==
    LET max == max_similarity(topics)
    IN IF max >= threshold
       THEN IF max >= VeryHighSimilarity
            THEN [status |-> DuplicationStatus.DUPLICATE_FOUND, message |-> "duplicate"]
            ELSE [status |-> DuplicationStatus.POTENTIAL_DUPLICATE, message |-> "potential"]
       ELSE IF topics[1].similarity_score >= PotentialThreshold
            THEN [status |-> DuplicationStatus.POTENTIAL_DUPLICATE, message |-> "similar"]
            ELSE [status |-> DuplicationStatus.NO_DUPLICATE, message |-> "unique"]

\* mutant: near-duplicates found below the threshold decide the status
determine_status_near_dups_decide(topics, threshold) ==
    LET max == max_similarity(topics)
    IN IF max >= threshold \/ AtLeast(topics, NearDuplicate) # <<>>
       THEN IF max >= VeryHighSimilarity
            THEN [status |-> DuplicationStatus.DUPLICATE_FOUND, message |-> "duplicate"]
            ELSE [status |-> DuplicationStatus.POTENTIAL_DUPLICATE, message |-> "potential"]
       ELSE IF AtLeast(topics, PotentialThreshold) # <<>>
            THEN [status |-> DuplicationStatus.POTENTIAL_DUPLICATE, message |-> "similar"]
            ELSE [status |-> DuplicationStatus.NO_DUPLICATE, message |-> "unique"]

determine_status(topics, threshold) ==
    LET max == max_similarity(topics)
    IN IF max >= threshold
       THEN IF max >= VeryHighSimilarity
            THEN [status |-> DuplicationStatus.DUPLICATE_FOUND, message |-> "duplicate"]
            ELSE [status |-> DuplicationStatus.POTENTIAL_DUPLICATE, message |-> "potential"]
       ELSE IF AtLeast(topics, PotentialThreshold) # <<>>
            THEN [status |-> DuplicationStatus.POTENTIAL_DUPLICATE, message |-> "similar"]
            ELSE [status |-> DuplicationStatus.NO_DUPLICATE, message |-> "unique"]

extract_recommendations(llm, candidates) ==
    IF llm.recs = "raise"
    THEN IF candidates # <<>>
         THEN IF max_similarity(candidates) >= FallbackHighSimilarity
              THEN "fallback_high" ELSE "fallback_low"
         ELSE "none"
    ELSE "llm"

format_similar_topics(topics) ==
    LET shown == SubSeq(topics, 1, IF Len(topics) < TopN THEN Len(topics) ELSE TopN)
    IN [i \in DOMAIN shown |->
           [topic_id |-> IdToInt(shown[i].id),
            title |-> shown[i].title,
            similarity_score |-> shown[i].similarity_score,
            semester_id |-> shown[i].semester_id]]

\* mutant: the empty verdict reports full similarity
EmptyVerdict_full_similarity(threshold) ==
    [kind |-> "verdict",
     status |-> DuplicationStatus.NO_DUPLICATE,
     similarity_score |-> 1000,
     similar_topics |-> <<>>,
     threshold |-> threshold,
     message |-> "none_found",
     enhanced |-> FALSE,
     recommendations |-> "none"]

EmptyVerdict(threshold) ==
    [kind |-> "verdict",
     status |-> DuplicationStatus.NO_DUPLICATE,
     similarity_score |-> 0,
     similar_topics |-> <<>>,
     threshold |-> threshold,
     message |-> "none_found",
     enhanced |-> FALSE,
     recommendations |-> "none"]

\* mutant: a threshold of 0 is taken for "no threshold" (the falsy test that
\* search_similar_topics applies to its similarity_threshold)
analyze_similarity_results_falsy_threshold(topics, threshold, llm) ==
    IF topics = <<>> \/ threshold = 0 THEN EmptyVerdict(threshold)
    ELSE LET decided == determine_status(topics, threshold)
             candidates == duplicate_candidates(topics, threshold)
             enhanced == candidates # <<>> /\ llm.analysis # ""
         IN [kind |-> "verdict",
             status |-> decided.status,
             similarity_score |-> max_similarity(topics),
             similar_topics |-> format_similar_topics(topics),
             threshold |-> threshold,
             message |-> decided.message,
             enhanced |-> enhanced,
             recommendations |->
                 IF enhanced THEN extract_recommendations(llm, candidates) ELSE "none"]

analyze_similarity_results(topics, threshold, llm) ==
    IF topics = <<>> THEN EmptyVerdict(threshold)
    ELSE LET decided == determine_status(topics, threshold)
             candidates == duplicate_candidates(topics, threshold)
             enhanced == candidates # <<>> /\ llm.analysis # ""
         IN [kind |-> "verdict",
             status |-> decided.status,
             similarity_score |-> max_similarity(topics),
             similar_topics |-> format_similar_topics(topics),
             threshold |-> threshold,
             message |-> decided.message,
             enhanced |-> enhanced,
             recommendations |->
                 IF enhanced THEN extract_recommendations(llm, candidates) ELSE "none"]

(***************************************************************************)
(* TopicModificationAgent._determine_modification_strategy                 *)
(***************************************************************************)
MajorRedesignSimilarity == 950
SignificantChangesSimilarity == 850
DifferentiationCount == 3

\* mutant: the 0.95 bound is exclusive
determine_modification_strategy_exclusive(duplicate_results) ==
    LET status == duplicate_results.status
        similarity_score == duplicate_results.similarity_score
        similar_topics_count == Len(duplicate_results.similar_topics)
    IN IF PyEq(status, ValueOf(DuplicationStatus.DUPLICATE_FOUND))
       THEN IF similarity_score > MajorRedesignSimilarity THEN "major_redesign"
            ELSE IF similarity_score >= SignificantChangesSimilarity THEN "significant_changes"
            ELSE "moderate_changes"
       ELSE IF PyEq(status, ValueOf(DuplicationStatus.POTENTIAL_DUPLICATE))
            THEN IF similar_topics_count > DifferentiationCount THEN "differentiation_focus"
                 ELSE "minor_adjustments"
            ELSE "enhancement_only"

determine_modification_strategy(duplicate_results) ==
    LET status == duplicate_results.status
        similarity_score == duplicate_results.similarity_score
        similar_topics_count == Len(duplicate_results.similar_topics)
    IN IF PyEq(status, ValueOf(DuplicationStatus.DUPLICATE_FOUND))
       THEN IF similarity_score >= MajorRedesignSimilarity THEN "major_redesign"
            ELSE IF similarity_score >= SignificantChangesSimilarity THEN "significant_changes"
            ELSE "moderate_changes"
       ELSE IF PyEq(status, ValueOf(DuplicationStatus.POTENTIAL_DUPLICATE))
            THEN IF similar_topics_count > DifferentiationCount THEN "differentiation_focus"
                 ELSE "minor_adjustments"
            ELSE "enhancement_only"

(***************************************************************************)
(* Text.  A Python str is the sequence of its words: "" is <<>> and         *)
(* " ".join(parts) of non-empty parts is their concatenation.              *)
(***************************************************************************)
RECURSIVE Join(_)
Join(parts) == IF parts = <<>> THEN <<>> ELSE Head(parts) \o Join(Tail(parts))

\* f"{label} {text}" appended to content_parts only when text is non-empty
Labelled(label, text) == IF text # <<>> THEN <<label>> \o text ELSE <<>>

\* DuplicateDetectionAgent._combine_topic_content
combine_topic_content(title, description, objectives, methodology) ==
    Join(<<Labelled("Title:", title),
           Labelled("Description:", description),
           Labelled("Objectives:", objectives),
           Labelled("Methodology:", methodology)>>)

(***************************************************************************)
(* ChromaService.search_similar_topics and the call the agent makes.       *)
(***************************************************************************)
NResults == 10
CandidateFloor == 300
SimilarityThresholdDefault == 800

\* cosine similarity of two embedded texts (1 - distance): identical texts
\* score 1.0, any two different texts score `cross`, the value the
\* embedding provider of this run gives them.
Similarity(cross, text1, text2) == IF text1 = text2 THEN 1000 ELSE cross

\* the documents of the index, nearest first, as collection.query returns them
RECURSIVE NearestFirst(_, _, _)
NearestFirst(docs, cross, query_content) ==
    IF docs = {} THEN <<>>
    ELSE LET nearest == CHOOSE d \in docs : \A e \in docs :
                            Similarity(cross, query_content, d.content)
                                >= Similarity(cross, query_content, e.content)
         IN <<nearest>> \o NearestFirst(docs \ {nearest}, cross, query_content)

\* parameters of def search_similar_topics(self, query_content, n_results,
\* similarity_threshold)
search_similar_topics_params == {"query_content", "n_results", "similarity_threshold"}

\* keyword arguments of the call in DuplicateDetectionAgent.process
search_call_keywords == {"query_content", "n_results", "similarity_threshold", "where"}

\* Python raises TypeError for a keyword argument the function does not take,
\* whatever the argument's value.
CallRaisesTypeError(keywords, params) == ~(keywords \subseteq params)

search_similar_topics(docs, cross, query_content, n_results, similarity_threshold, query_ok) ==
    LET ranked == NearestFirst(docs, cross, query_content)
        returned == SubSeq(ranked, 1, IF Len(ranked) < n_results THEN Len(ranked) ELSE n_results)
        scored == [i \in DOMAIN returned |->
                      [id |-> returned[i].id,
                       similarity_score |-> Similarity(cross, query_content, returned[i].content),
                       title |-> returned[i].title,
                       semester_id |-> returned[i].semester_id]]
    IN IF query_ok
       THEN SelectSeq(scored, LAMBDA t :
                ~(similarity_threshold # 0 /\ t.similarity_score < similarity_threshold))
       ELSE <<>>

(***************************************************************************)
(* AgentResult(...).to_dict()                                              *)
(***************************************************************************)
AgentSuccess(data) == [success |-> TRUE, data |-> data, error |-> ""]
AgentFailure(error) == [success |-> FALSE, data |-> None, error |-> error]

(***************************************************************************)
(* DuplicateDetectionAgent.process                                         *)
(***************************************************************************)
SelfMatchSimilarity == 999

\* lines 56-70: the excluded id, or else the heuristic self-match filter
exclude_self(topics, input) ==
    IF input.exclude_topic_id # 0
    THEN SelectSeq(topics, LAMBDA t : t.id # <<input.exclude_topic_id>>)
    ELSE SelectSeq(topics, LAMBDA t :
             ~(t.title = input.topic_title /\ t.similarity_score >= SelfMatchSimilarity))

\* lines 72-81: the semester filter, dropped when nothing passes it
filter_semester(topics, input) ==
    IF input.semester_id # 0
    THEN LET same == SelectSeq(topics, LAMBDA t : t.semester_id = input.semester_id)
         IN IF same = <<>> THEN topics ELSE same
    ELSE topics

\* lines 41-88 once the search has returned
detection_pipeline(input, docs, cross, llm, query_ok) ==
    LET full_content == combine_topic_content(input.topic_title, input.topic_description,
                                              input.topic_objectives, input.topic_methodology)
        found == search_similar_topics(docs, cross, full_content, NResults, CandidateFloor,
                                       query_ok)
    IN analyze_similarity_results(filter_semester(exclude_self(found, input), input),
                                  input.threshold, llm)

duplicate_agent_process(input, docs, cross, llm, query_ok) ==
    IF CallRaisesTypeError(search_call_keywords, search_similar_topics_params)
    THEN AgentFailure("TypeError")
    ELSE AgentSuccess(detection_pipeline(input, docs, cross, llm, query_ok))

(***************************************************************************)
(* TopicModificationAgent.process                                          *)
(***************************************************************************)
BaseImprovement == 100
PerModification == 50
MaxImprovementTenths == 6

\* What generate_text gives the modification agent: an exception, text in
\* which no JSON object can be found or parsed, or text holding a JSON object.
Raise == [kind |-> "raise"]
NoJson == [kind |-> "text"]
JsonAnswer(object) == [kind |-> "json", object |-> object]

\* A key of the JSON object: absent, or present with a value; the values ""
\* and [] are both <<>>.
Absent == [present |-> FALSE, value |-> <<>>]
Given(value) == [present |-> TRUE, value |-> value]

\* not d.get(key): the key is absent or its value is "" or []
Falsy(field) == field.value = <<>>

\* _create_fallback_modification: the title gets a differentiating prefix
fallback_title(original_title) ==
    IF \A i \in DOMAIN original_title : original_title[i] # "he_thong"
    THEN <<"he_thong">> \o original_title
    ELSE IF \A i \in DOMAIN original_title : original_title[i] # "ung_dung"
         THEN <<"ung_dung">> \o original_title
         ELSE original_title \o <<"phien_ban_cai_tien">>

\* x or y on two strings
Or(text, otherwise) == IF text # <<>> THEN text ELSE otherwise

create_fallback_modification(original_topic) ==
    LET modified_title == fallback_title(original_topic.title)
    IN [title |-> Given(modified_title),
        description |-> Given(original_topic.description),
        objectives |-> Given(original_topic.objectives \o <<"dac_biet_chu_trong">>),
        problem |-> Given(Or(original_topic.problem, <<"van_de">> \o modified_title)),
        context |-> Given(Or(original_topic.context, <<"boi_canh">> \o modified_title)),
        content |-> Given(Or(original_topic.content, <<"noi_dung">> \o modified_title)),
        semester_id |-> original_topic.semester_id,
        modifications_made |-> Given(<<"title", "fields", "objectives">>),
        rationale |-> Given(<<"fallback_rationale">>)]

\* the text generated for a missing problem, context or content (every
\* description of the model is shorter than the 100 characters kept)
generated_field(label, title, description) == <<label>> \o title \o <<":">> \o description

\* lines 244-249: a required field that is not in the object
backfill_absent(field, original_value) ==
    IF field.present THEN field ELSE Given(original_value)

\* lines 308-314: a default only for a key that is not in the object
default_absent(field, default) ==
    IF field.present THEN field ELSE Given(default)

\* _parse_modification_response on the text generate_text returned
parse_modification_response(answer, original_topic) ==
    IF answer.kind = "text" THEN create_fallback_modification(original_topic)
    ELSE LET data == answer.object
             title == backfill_absent(data.title, original_topic.title)
             description == backfill_absent(data.description, original_topic.description)
             objectives == backfill_absent(data.objectives, original_topic.objectives)
             vector(field, label) ==
                 IF Falsy(field)
                 THEN Given(generated_field(label, title.value, description.value))
                 ELSE field
         IN [title |-> title,
             description |-> description,
             objectives |-> objectives,
             problem |-> vector(data.problem, "van_de"),
             context |-> vector(data.context, "boi_canh"),
             content |-> vector(data.content, "noi_dung"),
             semester_id |-> original_topic.semester_id,
             modifications_made |-> default_absent(data.modifications_made, <<"adjusted">>),
             rationale |-> default_absent(data.rationale, <<"default_rationale">>)]

\* _normalize_modified_topic
normalize_modified_topic(modified_topic, original_topic) ==
    LET text(field, original_value) ==
            IF Falsy(field) THEN original_value ELSE field.value
        title == text(modified_topic.title, original_topic.title)
        description == text(modified_topic.description, original_topic.description)
        vector(field, label) ==
            IF Falsy(field) THEN generated_field(label, title, description) ELSE field.value
        \* modified_topic.get(key, default): the default only for an absent key
        kept(field, default) ==
            IF Falsy(field)
            THEN IF field.present THEN field.value ELSE default
            ELSE field.value
    IN [title |-> title,
        description |-> description,
        objectives |-> text(modified_topic.objectives, original_topic.objectives),
        problem |-> vector(modified_topic.problem, "van_de"),
        context |-> vector(modified_topic.context, "boi_canh"),
        content |-> vector(modified_topic.content, "noi_dung"),
        semester_id |-> modified_topic.semester_id,
        modifications_made |-> kept(modified_topic.modifications_made,
                                    <<"title", "approach">>),
        rationale |-> kept(modified_topic.rationale, <<"default_rationale">>)]

\* _estimate_similarity_improvement, rounded to thousandths
estimate_similarity_improvement(modified_topic, duplicate_results) ==
    LET original_similarity == duplicate_results.similarity_score
        additional == IF original_similarity >= 900 THEN 300
                      ELSE IF original_similarity >= 800 THEN 200
                      ELSE IF original_similarity >= 700 THEN 150
                      ELSE 100
        total == BaseImprovement + Len(modified_topic.modifications_made) * PerModification
                     + additional
        cap == (original_similarity * MaxImprovementTenths + 5) \div 10
    IN IF total < cap THEN total ELSE cap

\* characters of a word of the model: "T495" is a word of 495 characters,
\* "he_thong" and "ung_dung" the 8 characters of the two prefixes,
\* "phien_ban_cai_tien" the 20 characters that follow the title and a space
WordChars(word) ==
    CASE word = "T495" -> 495
      [] word \in {"he_thong", "ung_dung"} -> 8
      [] word = "phien_ban_cai_tien" -> 20
      [] OTHER -> 1

\* len(text): the words and the single spaces between them
RECURSIVE Chars(_)
Chars(text) ==
    IF text = <<>> THEN 0
    ELSE IF Len(text) = 1 THEN WordChars(text[1])
         ELSE WordChars(Head(text)) + 1 + Chars(Tail(text))

\* title: str = Field(..., max_length=500)
MaxTitleLength == 500

\* TopicRequest(**modified_topic) raises ValidationError for a longer title
TopicRequestValid(modified_topic) == Chars(modified_topic.title) <= MaxTitleLength

\* TopicRequest(**modified_topic): the fields of the schema
TopicRequestOf(modified_topic) ==
    [title |-> modified_topic.title,
     description |-> modified_topic.description,
     objectives |-> modified_topic.objectives,
     problem |-> modified_topic.problem,
     context |-> modified_topic.context,
     content |-> modified_topic.content,
     semester_id |-> modified_topic.semester_id]

modification_agent_process(original_topic, duplicate_results, answer) ==
    IF duplicate_results = None THEN AgentFailure("AttributeError")
    ELSE LET modification_strategy == determine_modification_strategy(duplicate_results)
         IN IF answer.kind = "raise" THEN AgentFailure("generate_text")
            ELSE LET parsed == parse_modification_response(answer, original_topic)
                     modified_topic == normalize_modified_topic(parsed, original_topic)
                 IN IF ~TopicRequestValid(modified_topic)
                    THEN AgentFailure("ValidationError")
                    ELSE AgentSuccess(
                             [modified_topic |-> TopicRequestOf(modified_topic),
                              modifications_made |-> modified_topic.modifications_made,
                              rationale |-> modified_topic.rationale,
                              similarity_improvement |->
                                  estimate_similarity_improvement(modified_topic,
                                                                  duplicate_results),
                              strategy_used |-> modification_strategy])

(***************************************************************************)
(* MainAgent                                                               *)
(***************************************************************************)
\* MainAgent._check_duplicates: the input it builds carries no threshold, no
\* exclude_topic_id and no where, so process falls back to its defaults.
duplicate_input(topic_request) ==
    [topic_title |-> topic_request.title,
     topic_description |-> topic_request.description,
     topic_objectives |-> topic_request.objectives,
     topic_methodology |-> <<>>,
     semester_id |-> topic_request.semester_id,
     exclude_topic_id |-> 0,
     threshold |-> SimilarityThresholdDefault]

\* mutant: a failed check is tried again, twice
check_duplicates_retrying(topic_request, docs, cross, llm, query_ok) ==
    LET result == duplicate_agent_process(duplicate_input(topic_request), docs, cross, llm,
                                          query_ok)
    IN [result |-> result, agent_calls |-> IF result.success THEN 1 ELSE 3]

\* MainAgent._check_duplicates: one call of the duplicate agent
check_duplicates(topic_request, docs, cross, llm, query_ok) ==
    [result |-> duplicate_agent_process(duplicate_input(topic_request), docs, cross, llm,
                                       query_ok),
     agent_calls |-> 1]

\* MainAgent._modify_topic
modify_topic(topic_request, duplicate_results, gen) ==
    modification_agent_process(topic_request, duplicate_results, gen)

InitialStats ==
    [total_requests |-> 0, successful_submissions |-> 0,
     duplicates_found |-> 0, modifications_made |-> 0]

\* response_data as initialised at lines 55-64
InitialResponse ==
    [success |-> FALSE, topic_id |-> 0, duplicate_check |-> None, suggestions |-> None,
     modifications |-> None, final_topic |-> None, messages |-> <<>>]

Bump(stats, counter) == [stats EXCEPT ![counter] = @ + 1]

Say(response, message) == [response EXCEPT !.messages = Append(@, message)]

\* lines 95-112: what follows the modification agent's answer
after_modification(request, topic_request, response, stats, first, docs, cross, llm, query_ok, gen) ==
    LET modification == modify_topic(topic_request, first.result.data, gen)
        invoked == IF first.result.data = None THEN 0 ELSE 1
    IN IF modification.success
       THEN LET modified_topic == modification.data.modified_topic
                recheck == check_duplicates(modified_topic, docs, cross, llm, query_ok)
                modified_response ==
                    Say([response EXCEPT !.modifications = modification.data], "modified")
            IN [response |-> IF recheck.result.success
                             THEN Say([modified_response EXCEPT
                                          !.duplicate_check = recheck.result.data], "rechecked")
                             ELSE modified_response,
                topic_request |-> modified_topic,
                stats |-> Bump(stats, "modifications_made"),
                check_calls |-> first.agent_calls + recheck.agent_calls,
                generator_calls |-> invoked,
                checked |-> <<topic_request, modified_topic>>]
       ELSE [response |-> Say(response, "modification_error"),
             topic_request |-> topic_request,
             stats |-> stats,
             check_calls |-> first.agent_calls,
             generator_calls |-> invoked,
             checked |-> <<topic_request>>]

\* lines 75-120: step 2 of MainAgent.process, modification and recheck included
check_duplicates_step(request, topic_request, response, stats, docs, cross, llm, query_ok, gen) ==
    LET untouched(resp, st, calls) ==
            [response |-> resp, topic_request |-> topic_request, stats |-> st,
             check_calls |-> calls, generator_calls |-> 0,
             checked |-> IF calls = 0 THEN <<>> ELSE <<topic_request>>]
    IN IF ~request.check_duplicates THEN untouched(response, stats, 0)
       ELSE LET first == check_duplicates(topic_request, docs, cross, llm, query_ok)
            IN IF first.result.success
               THEN LET reported == [response EXCEPT !.duplicate_check = first.result.data]
                        duplicate_status == first.result.data.status
                    IN IF PyEq(duplicate_status, ValueOf(DuplicationStatus.DUPLICATE_FOUND))
                       THEN IF request.auto_modify
                            THEN after_modification(request, topic_request,
                                     Say(reported, "duplicate_found"),
                                     Bump(stats, "duplicates_found"),
                                     first, docs, cross, llm, query_ok, gen)
                            ELSE untouched(Say(reported, "duplicate_found"),
                                           Bump(stats, "duplicates_found"), first.agent_calls)
                       ELSE IF PyEq(duplicate_status,
                                    ValueOf(DuplicationStatus.POTENTIAL_DUPLICATE))
                            THEN untouched(Say(reported, "potential_duplicate"),
                                           stats, first.agent_calls)
                            ELSE untouched(Say(reported, "no_duplicate"),
                                           stats, first.agent_calls)
               ELSE untouched(Say(response, "check_error"), stats, first.agent_calls)

\* TopicRepository.topic_exists_by_title
topic_exists_by_title(topics, title, semester_id) ==
    \E t \in topics : t.Title = title /\ t.SemesterId = semester_id /\ t.IsActive

\* TopicRepository.create_topic: the row the database inserts
new_topic_row(topics, topic_request) ==
    [Id |-> Cardinality(topics) + 1,
     Title |-> topic_request.title,
     Description |-> topic_request.description,
     Objectives |-> topic_request.objectives,
     SemesterId |-> topic_request.semester_id,
     IsActive |-> TRUE]

\* MainAgent._index_new_topic: the document handed to the index
new_topic_document(topic) ==
    [id |-> <<topic.Id>>,
     title |-> topic.Title,
     content |-> Join(<<topic.Title, topic.Description, topic.Objectives>>),
     semester_id |-> topic.SemesterId]

\* collection.add keeps the stored document when the id is already there
add_topic(docs, document) ==
    IF \E d \in docs : d.id = document.id THEN docs ELSE docs \cup {document}

\* ChromaService.upsert_topic: collection.upsert replaces the document of the
\* id (a PersistentClient collection has upsert)
upsert_topic(docs, document) ==
    {d \in docs : d.id # document.id} \cup {document}

(***************************************************************************)
(* check_duplicate_advanced (POST /check-duplicate-advanced)               *)
(***************************************************************************)
\* lines 97-108: the non-empty fields of the request, in the indexing order
combined_description(req) ==
    Join(<<req.title, req.vn_title, req.problem, req.context, req.content,
           req.description, req.objectives>>)

\* lines 155-165; where is "" for None
advanced_detection_input(req, threshold, base_semester_id, where) ==
    [topic_title |-> Or(req.title, req.vn_title),
     topic_description |-> combined_description(req),
     topic_objectives |-> <<>>,
     topic_methodology |-> <<>>,
     semester_id |-> base_semester_id,
     exclude_topic_id |-> 0,
     threshold |-> threshold,
     where |-> where]

\* DuplicateDetectionAgent.process lines 41-46: the string the agent embeds
\* and compares with the documents of the index
full_content_of(input) ==
    combine_topic_content(input.topic_title, input.topic_description,
                          input.topic_objectives, input.topic_methodology)

\* lines 186-197; body_semester_id or 1
normalized_original_topic(req) ==
    [title |-> req.title, description |-> req.description, objectives |-> req.objectives,
     problem |-> req.problem, context |-> req.context, content |-> req.content,
     semester_id |-> IF req.semester_id # 0 THEN req.semester_id ELSE 1]

HttpError(detail) == [kind |-> "http", status_code |-> 500, detail |-> detail]
HttpOk(body) == [kind |-> "http", status_code |-> 200, body |-> body]

\* the whole handler: detection, then the modification proposal when the
\* status says duplicate or potential duplicate
check_duplicate_advanced(req, threshold, base_semester_id, where, docs, cross, llm, query_ok, answer) ==
    LET detection_input == advanced_detection_input(req, threshold, base_semester_id, where)
        detection_result == duplicate_agent_process(detection_input, docs, cross, llm, query_ok)
    IN IF ~detection_result.success THEN HttpError(detection_result.error)
       ELSE LET dup_data == detection_result.data
                \* str(getattr(status, "value", status)).lower()
                status == dup_data.status.value
            IN IF status \in {"duplicate_found", "potential_duplicate"}
               THEN LET modification_result ==
                            modification_agent_process(normalized_original_topic(req),
                                                       dup_data, answer)
                    IN HttpOk([duplicate_check |-> dup_data,
                               modification_proposal |-> modification_result.data,
                               modification_error |-> modification_result.error])
               ELSE HttpOk([duplicate_check |-> dup_data,
                            modification_proposal |-> None,
                            modification_error |-> ""])

(***************************************************************************)
(* TopicRepository and TopicService on topic versions.                     *)
(***************************************************************************)
Approved == 4
Rejected == 5

\* TopicRepository.get_topic_version_by_id: the active version of that id
get_topic_version_by_id(rows, version_id) ==
    {v \in rows : v.Id = version_id /\ v.IsActive}

\* TopicRepository.get_topic_versions_by_topic_id
get_topic_versions_by_topic_id(rows, topic_id) ==
    {v \in rows : v.TopicId = topic_id /\ v.IsActive}

\* TopicService.create_topic_version: the row TopicRepository inserts
new_version_row(rows, topic_id, version_request) ==
    [Id |-> Cardinality(rows) + 1,
     TopicId |-> topic_id,
     VersionNumber |-> Cardinality(get_topic_versions_by_topic_id(rows, topic_id)) + 1,
     Title |-> version_request.title,
     Description |-> version_request.description,
     Objectives |-> version_request.objectives,
     Status |-> version_request.status,
     IsActive |-> TRUE]

\* TopicRepository.approve_topic_version and reject_topic_version: the
\* status of that one version is set, no other row is touched
set_version_status(rows, version_id, status) ==
    {IF v.Id = version_id /\ v.IsActive THEN [v EXCEPT !.Status = status] ELSE v : v \in rows}

\* TopicService._index_approved_version: index_data of an approved version
approved_version_document(version, topic) ==
    [id |-> <<topic.Id, version.Id>>,
     title |-> version.Title,
     content |-> Join(<<version.Title, version.Description, version.Objectives>>),
     semester_id |-> topic.SemesterId]

\* the body of the coroutine TopicService._index_approved_version
index_approved_version(docs, rows, topic_rows, version_id) ==
    LET found == {v \in get_topic_version_by_id(rows, version_id) : v.Status = Approved}
    IN IF found = {} THEN docs
       ELSE LET version == CHOOSE v \in found : TRUE
                owner == {t \in topic_rows : t.Id = version.TopicId}
            IN IF owner = {} THEN docs
               ELSE add_topic(docs, approved_version_document(version,
                                                              CHOOSE t \in owner : TRUE))

\* f(x) for an async def f, written without await: Python builds the
\* coroutine object and drops it, the body never runs
CalledWithoutAwait(before, after_body) == before

(***************************************************************************)
(* State.                                                                  *)
(***************************************************************************)
VARIABLES
    similar_topics,     \* candidate list handed to the classifier
    threshold,          \* threshold of the latest classification
    verdict,            \* dict returned by the latest classification, or None
    earlier,            \* threshold and status of the classification before a relaxation
    duplicate_results,  \* dict read by the strategist, or None
    handed,             \* duplicate_results is the classifier's dict, unchanged
    strategy,           \* tag returned by the strategist, or "" before it ran
    processing_stats,   \* MainAgent.processing_stats
    index,              \* documents of the Chroma collection
    topics,             \* rows of the topics table
    cross_similarity,   \* similarity the embedding gives two different texts
    calls,              \* calls of MainAgent.process started so far
    pc,                 \* where the call in progress stands, "idle" between calls
    request,            \* the parsed AgentProcessRequest of the call, or None
    response_data,      \* response_data of the call
    result,             \* what the latest finished call returned, or None
    gen,                \* what generate_text answers during the call
    generator_calls,    \* calls of the modification agent's generate_text in the call
    check_calls,        \* calls of DuplicateDetectionAgent.process in the call
    checked,            \* the topic requests those calls were given, in order
    agent_input,        \* input_data of a sub-agent's process called on its own, or None
    agent_env,          \* what the services behind the agent answered during that call
    agent_result,       \* the dict that call returned, or None
    versions,           \* rows of the topic_versions table
    inflight            \* calls of MainAgent.process in progress at the same time

cvars == <<similar_topics, threshold, verdict, earlier, duplicate_results, handed, strategy>>

ovars == <<processing_stats, index, topics, cross_similarity, calls, pc, request,
           response_data, result, gen, generator_calls, check_calls, checked>>

dvars == <<agent_input, agent_env, agent_result>>

svars == <<versions, inflight>>

vars == <<cvars, ovars, dvars, svars>>

\* no sub-agent has been called on its own
AgentIdle == agent_input = None /\ agent_env = None /\ agent_result = None

\* no version has been submitted and no two calls overlap
ServiceIdle == versions = {} /\ inflight = <<>>

\* no call of MainAgent.process has been made: the service as constructed
OrchestratorIdle ==
    /\ processing_stats = InitialStats
    /\ index = {}
    /\ topics = {}
    /\ cross_similarity = 0
    /\ calls = 0
    /\ pc = "idle"
    /\ request = None
    /\ response_data = InitialResponse
    /\ result = None
    /\ gen = None
    /\ generator_calls = 0
    /\ check_calls = 0
    /\ checked = <<>>

\* statuses a caller-supplied dict can carry: the wire strings, the Enum
\* members, an unknown string, and "" for a dict with no status key.
StatusInputs ==
    {Str("no_duplicate"), Str("potential_duplicate"), Str("duplicate_found"),
     Str("unknown"), Str(""),
     DuplicationStatus.NO_DUPLICATE, DuplicationStatus.POTENTIAL_DUPLICATE,
     DuplicationStatus.DUPLICATE_FOUND}

StrategistSims == {0, 700, 849, 850, 949, 950, 1000}

Placeholder == [topic_id |-> 1, title |-> "X", similarity_score |-> 0, semester_id |-> 1]

ClassifierInit ==
    /\ similar_topics \in {s \in SeqsUpTo(ClassifierCands, MaxCands) : DistinctIds(s)}
    /\ threshold \in Thresholds
    /\ verdict = None
    /\ earlier = None
    /\ duplicate_results = None
    /\ handed = FALSE
    /\ strategy = ""
    /\ OrchestratorIdle
    /\ AgentIdle
    /\ ServiceIdle

\* one call of _analyze_similarity_results
Analyze ==
    /\ verdict = None
    /\ \E llm \in LLMAnswers :
          verdict' = analyze_similarity_results(similar_topics, threshold, llm)
    /\ UNCHANGED <<similar_topics, threshold, earlier, duplicate_results, handed, strategy>>
    /\ UNCHANGED <<ovars, dvars, svars>>

\* the same candidates classified again at a lower threshold
RelaxThreshold ==
    /\ verdict # None
    /\ earlier = None
    /\ \E t1 \in Thresholds, llm \in LLMAnswers :
          /\ t1 < threshold
          /\ earlier' = [kind |-> "earlier", threshold |-> threshold, status |-> verdict.status]
          /\ threshold' = t1
          /\ verdict' = analyze_similarity_results(similar_topics, t1, llm)
    /\ UNCHANGED <<similar_topics, duplicate_results, handed, strategy>>
    /\ UNCHANGED <<ovars, dvars, svars>>

\* check_duplicate_advanced and MainAgent._modify_topic pass the classifier's
\* dict to the modification agent as duplicate_results without touching it.
HandToStrategist ==
    /\ verdict # None
    /\ duplicate_results = None
    /\ duplicate_results' = verdict
    /\ handed' = TRUE
    /\ strategy' = determine_modification_strategy(verdict)
    /\ UNCHANGED <<similar_topics, threshold, verdict, earlier>>
    /\ UNCHANGED <<ovars, dvars, svars>>

ClassifierNext == Analyze \/ RelaxThreshold \/ HandToStrategist

SpecClassifier == ClassifierInit /\ [][ClassifierNext]_vars

(***************************************************************************)
(* The classifier on candidate lists longer than the five it displays.     *)
(***************************************************************************)
MaxReturned == 6

RankedScores == {650, 920}

\* candidate lists of up to MaxReturned entries, in any order of score; the
\* candidate at position i has id str(i)
RankedLists ==
    UNION {{[i \in 1..n |-> [id |-> <<i>>, similarity_score |-> scores[i],
                             title |-> "X", semester_id |-> 1]] :
               scores \in [1..n -> RankedScores]} : n \in 0..MaxReturned}

RankingInit ==
    /\ similar_topics \in RankedLists
    /\ threshold = SimilarityThresholdDefault
    /\ verdict = None
    /\ earlier = None
    /\ duplicate_results = None
    /\ handed = FALSE
    /\ strategy = ""
    /\ OrchestratorIdle
    /\ AgentIdle
    /\ ServiceIdle

SpecRanking == RankingInit /\ [][ClassifierNext]_vars

(***************************************************************************)
(* The strategist on a caller-supplied dict.                               *)
(***************************************************************************)
StrategistInit ==
    /\ similar_topics = <<>>
    /\ threshold = 800
    /\ verdict = None
    /\ earlier = None
    /\ duplicate_results = None
    /\ handed = FALSE
    /\ strategy = ""
    /\ OrchestratorIdle
    /\ AgentIdle
    /\ ServiceIdle

\* modify_topic_for_uniqueness / process_modification_only: the caller
\* supplies the duplicate_results dict.
StrategistOnDict ==
    /\ \E status \in StatusInputs, sim \in StrategistSims, n \in 0..MaxSimilar :
          LET dict == [kind |-> "dict", status |-> status, similarity_score |-> sim,
                       similar_topics |-> [i \in 1..n |-> Placeholder]]
          IN /\ duplicate_results' = dict
             /\ strategy' = determine_modification_strategy(dict)
    /\ handed' = FALSE
    /\ UNCHANGED <<similar_topics, threshold, verdict, earlier>>
    /\ UNCHANGED <<ovars, dvars, svars>>

StrategistNext == StrategistOnDict

SpecStrategist == StrategistInit /\ [][StrategistNext]_vars

(***************************************************************************)
(* MainAgent.process, one call at a time on the singleton agent.           *)
(***************************************************************************)
MaxCalls == 2

Titles == {<<"A">>, <<"B">>}

CrossSimilarities == {599, 650, 920}

TopicRequests ==
    [title : Titles, description : {<<"d">>}, objectives : {<<>>}, problem : {<<>>},
     context : {<<>>}, content : {<<>>}, semester_id : {1}]

\* a JSON object that holds none of the keys
EmptyObject ==
    [title |-> Absent, description |-> Absent, objectives |-> Absent, problem |-> Absent,
     context |-> Absent, content |-> Absent, modifications_made |-> Absent,
     rationale |-> Absent]

\* what generate_text answers during a call of MainAgent.process: an
\* exception, text with no JSON object, an object with a new title, an
\* object without a title
GenAnswers ==
    {Raise, NoJson, JsonAnswer([EmptyObject EXCEPT !.title = Given(<<"M">>)]),
     JsonAnswer(EmptyObject)}

Requests ==
    [topic_request : TopicRequests, check_duplicates : BOOLEAN,
     get_suggestions : BOOLEAN, auto_modify : BOOLEAN]

\* a topic created through TopicService before the first call, and the
\* document TopicService indexed for its first version
SeedTopic ==
    [Id |-> 1, Title |-> <<"S">>, Description |-> <<"d">>, Objectives |-> <<>>,
     SemesterId |-> 1, IsActive |-> TRUE]

SeedDocument ==
    [id |-> <<1, 1>>, title |-> <<"S">>, content |-> <<"S", "d">>, semester_id |-> 1]

ClassifierIdle ==
    /\ similar_topics = <<>>
    /\ threshold = SimilarityThresholdDefault
    /\ verdict = None
    /\ earlier = None
    /\ duplicate_results = None
    /\ handed = FALSE
    /\ strategy = ""

Init ==
    /\ ClassifierIdle
    /\ AgentIdle
    /\ ServiceIdle
    /\ processing_stats = InitialStats
    /\ \/ index = {} /\ topics = {}
       \/ index = {SeedDocument} /\ topics = {SeedTopic}
    /\ cross_similarity \in CrossSimilarities
    /\ calls = 0
    /\ pc = "idle"
    /\ request = None
    /\ response_data = InitialResponse
    /\ result = None
    /\ gen = None
    /\ generator_calls = 0
    /\ check_calls = 0
    /\ checked = <<>>

\* lines 45-64, and the except clause when AgentProcessRequest(**input_data)
\* rejects the input
Start ==
    /\ pc = "idle"
    /\ calls < MaxCalls
    /\ calls' = calls + 1
    /\ processing_stats' = Bump(processing_stats, "total_requests")
    /\ response_data' = InitialResponse
    /\ gen' = None
    /\ generator_calls' = 0
    /\ check_calls' = 0
    /\ checked' = <<>>
    /\ \/ \E input \in Requests :
             /\ request' = input
             /\ result' = None
             /\ pc' = "suggestions"
       \/ /\ request' = None
          /\ result' = AgentFailure("ValidationError")
          /\ pc' = "idle"
    /\ UNCHANGED <<index, topics, cross_similarity>>
    /\ UNCHANGED <<cvars, dvars, svars>>

\* lines 66-73
SuggestionsStep ==
    /\ pc = "suggestions"
    /\ \E suggestions_ok \in BOOLEAN :
          response_data' =
              IF ~request.get_suggestions THEN response_data
              ELSE IF suggestions_ok
                   THEN Say([response_data EXCEPT !.suggestions = Str("suggestions")],
                            "suggestions")
                   ELSE Say(response_data, "suggestions_error")
    /\ pc' = "check"
    /\ UNCHANGED <<processing_stats, index, topics, cross_similarity, calls, request,
                   result, gen, generator_calls, check_calls, checked>>
    /\ UNCHANGED <<cvars, dvars, svars>>

\* lines 75-120
CheckDuplicatesStep ==
    /\ pc = "check"
    /\ \E llm \in LLMAnswers, query_ok \in BOOLEAN, answer \in GenAnswers :
          LET out == check_duplicates_step(request, request.topic_request, response_data,
                                           processing_stats, index, cross_similarity,
                                           llm, query_ok, answer)
          IN /\ response_data' = out.response
             /\ request' = [request EXCEPT !.topic_request = out.topic_request]
             /\ processing_stats' = out.stats
             /\ check_calls' = out.check_calls
             /\ generator_calls' = out.generator_calls
             /\ checked' = out.checked
             /\ gen' = answer
    /\ pc' = "create"
    /\ UNCHANGED <<index, topics, cross_similarity, calls, result>>
    /\ UNCHANGED <<cvars, dvars, svars>>

\* mutant: a failure of the repository escapes to the except clause of process
CreateTopicStep_aborting ==
    /\ pc = "create"
    /\ \E db_ok \in BOOLEAN :
          LET topic_request == request.topic_request
          IN IF db_ok /\ ~topic_exists_by_title(topics, topic_request.title,
                                                topic_request.semester_id)
             THEN LET topic == new_topic_row(topics, topic_request)
                  IN /\ topics' = topics \cup {topic}
                     /\ response_data' =
                            Say([response_data EXCEPT !.topic_id = topic.Id,
                                                      !.final_topic = topic,
                                                      !.success = TRUE], "created")
                     /\ processing_stats' = Bump(processing_stats, "successful_submissions")
                     /\ pc' = "index"
                     /\ result' = result
             ELSE /\ result' = AgentFailure("create_error")
                  /\ pc' = "idle"
                  /\ UNCHANGED <<topics, processing_stats, response_data>>
    /\ UNCHANGED <<index, cross_similarity, calls, request, gen,
                   generator_calls, check_calls, checked>>
    /\ UNCHANGED <<cvars, dvars, svars>>

\* lines 122-129 and 135-136
CreateTopicStep ==
    /\ pc = "create"
    /\ \E db_ok \in BOOLEAN :
          LET topic_request == request.topic_request
          IN IF db_ok /\ ~topic_exists_by_title(topics, topic_request.title,
                                                topic_request.semester_id)
             THEN LET topic == new_topic_row(topics, topic_request)
                  IN /\ topics' = topics \cup {topic}
                     /\ response_data' =
                            Say([response_data EXCEPT !.topic_id = topic.Id,
                                                      !.final_topic = topic,
                                                      !.success = TRUE], "created")
                     /\ processing_stats' = Bump(processing_stats, "successful_submissions")
                     /\ pc' = "index"
             ELSE /\ response_data' = Say(response_data, "create_error")
                  /\ pc' = "return"
                  /\ UNCHANGED <<topics, processing_stats>>
    /\ UNCHANGED <<index, cross_similarity, calls, request, result, gen,
                   generator_calls, check_calls, checked>>
    /\ UNCHANGED <<cvars, dvars, svars>>

\* lines 131-133
IndexNewTopicStep ==
    /\ pc = "index"
    /\ \E index_ok \in BOOLEAN :
          index' = IF index_ok
                   THEN add_topic(index, new_topic_document(response_data.final_topic))
                   ELSE index
    /\ response_data' = Say(response_data, "indexed")
    /\ pc' = "return"
    /\ UNCHANGED <<processing_stats, topics, cross_similarity, calls, request, result,
                   gen, generator_calls, check_calls, checked>>
    /\ UNCHANGED <<cvars, dvars, svars>>

\* lines 138-148
Return ==
    /\ pc = "return"
    /\ result' = [success |-> TRUE, data |-> response_data, error |-> "",
                  metadata |-> processing_stats]
    /\ pc' = "idle"
    /\ UNCHANGED <<processing_stats, index, topics, cross_similarity, calls, request,
                   response_data, gen, generator_calls, check_calls, checked>>
    /\ UNCHANGED <<cvars, dvars, svars>>

Next ==
    \/ Start
    \/ SuggestionsStep
    \/ CheckDuplicatesStep
    \/ CreateTopicStep
    \/ IndexNewTopicStep
    \/ Return

Spec == Init /\ [][Next]_vars

\* every awaited sub-agent, repository or index call returns or raises, and
\* the event loop then resumes the coroutine
Resume ==
    \/ SuggestionsStep
    \/ CheckDuplicatesStep
    \/ CreateTopicStep
    \/ IndexNewTopicStep
    \/ Return

SpecLive == Spec /\ WF_vars(Resume)

(***************************************************************************)
(* DuplicateDetectionAgent.process called on its own, as                   *)
(* check_duplicate_advanced and TopicService call it.                      *)
(***************************************************************************)
\* documents the indexing code can have written: one by MainAgent
\* (id str(topic_id)), one by TopicService (id topic_version), one written
\* before semester_id was put in the metadata (0 stands for the missing key)
DetectionDocs ==
    {[id |-> <<1>>, title |-> <<"A">>, content |-> <<"A", "d">>, semester_id |-> 1],
     [id |-> <<2, 1>>, title |-> <<"S">>, content |-> <<"S", "d">>, semester_id |-> 2],
     [id |-> <<3>>, title |-> <<"B">>, content |-> <<"B", "d">>, semester_id |-> 0]}

\* an embedding may also rate two texts that differ only in their labels as
\* identical
DetectionCross == CrossSimilarities \cup {1000}

\* input_data of the call; 0 stands for a key that is absent or None
DetectionInputs ==
    [topic_title : {<<"A">>, <<"S">>}, topic_description : {<<"d">>},
     topic_objectives : {<<>>}, topic_methodology : {<<>>},
     semester_id : {0, 1, 2}, exclude_topic_id : {0, 1, 3},
     threshold : {650, SimilarityThresholdDefault},
     where : {"", "semester_id"}]

DetectionInit ==
    /\ ClassifierIdle
    /\ AgentIdle
    /\ ServiceIdle
    /\ processing_stats = InitialStats
    /\ index \in SUBSET DetectionDocs
    /\ topics = {}
    /\ cross_similarity \in DetectionCross
    /\ calls = 0
    /\ pc = "idle"
    /\ request = None
    /\ response_data = InitialResponse
    /\ result = None
    /\ gen = None
    /\ generator_calls = 0
    /\ check_calls = 0
    /\ checked = <<>>

\* one call of DuplicateDetectionAgent.process; the agent keeps nothing from
\* one call to the next, so a behaviour makes one
DetectionProcess ==
    /\ agent_input = None
    /\ \E input \in DetectionInputs, llm \in LLMAnswers, query_ok \in BOOLEAN :
          /\ agent_input' = input
          /\ agent_env' = [kind |-> "detection", llm |-> llm, query_ok |-> query_ok]
          /\ agent_result' = duplicate_agent_process(input, index, cross_similarity,
                                                     llm, query_ok)
    /\ UNCHANGED <<cvars, ovars, svars>>

DetectionNext == DetectionProcess

SpecDetection == DetectionInit /\ [][DetectionNext]_vars

(***************************************************************************)
(* TopicModificationAgent.process called on its own, as                    *)
(* check_duplicate_advanced and TopicService call it.                      *)
(***************************************************************************)
\* original topics that passed TopicRequest's validation: a short title and
\* one of 495 characters
OriginalTopics ==
    [title : {<<"A">>, <<"T495">>}, description : {<<"d">>}, objectives : {<<>>, <<"o">>},
     problem : {<<>>, <<"p">>}, context : {<<"c">>}, content : {<<"n">>},
     semester_id : {1}]

\* the verdict of a duplicate check, handed over as duplicate_results
HandedVerdicts ==
    {[kind |-> "dict", status |-> DuplicationStatus.DUPLICATE_FOUND,
      similarity_score |-> 920, similar_topics |-> <<Placeholder>>]}

ModificationInputs ==
    [original_topic : OriginalTopics, duplicate_results : HandedVerdicts]

\* each key of the object is absent, present and empty, or present with text
TextFields(new_text) == {Absent, Given(<<>>), Given(new_text)}

JsonObjects ==
    [title : TextFields(<<"M">>), description : TextFields(<<"e">>),
     objectives : TextFields(<<"q">>), problem : TextFields(<<"r">>),
     context : TextFields(<<"s">>), content : TextFields(<<"t">>),
     modifications_made : TextFields(<<"m1">>), rationale : TextFields(<<"why">>)]

ModificationAnswers == {Raise, NoJson} \cup {JsonAnswer(object) : object \in JsonObjects}

ModificationInit ==
    /\ ClassifierIdle
    /\ OrchestratorIdle
    /\ AgentIdle
    /\ ServiceIdle

\* one call of TopicModificationAgent.process; the agent keeps nothing from
\* one call to the next, so a behaviour makes one
ModificationProcess ==
    /\ agent_input = None
    /\ \E input \in ModificationInputs, answer \in ModificationAnswers :
          /\ agent_input' = input
          /\ agent_env' = [kind |-> "modification", answer |-> answer]
          /\ agent_result' = modification_agent_process(input.original_topic,
                                                        input.duplicate_results, answer)
    /\ UNCHANGED <<cvars, ovars, svars>>

ModificationNext == ModificationProcess

SpecModification == ModificationInit /\ [][ModificationNext]_vars

(***************************************************************************)
(* Writes to the similarity index.                                         *)
(***************************************************************************)
\* topic_data handed to the indexing operations
IndexedDocuments ==
    [id : {<<1>>, <<2, 1>>, <<3>>}, title : {<<"A">>},
     content : {<<"A", "d">>, <<"A", "e">>}, semester_id : {1}]

\* what an indexing operation returns
Returned(success) == [kind |-> "bool", value |-> success]

IndexInit ==
    /\ ClassifierIdle
    /\ OrchestratorIdle
    /\ AgentIdle
    /\ ServiceIdle

\* DuplicateDetectionAgent.index_topic, the operation every indexing path of
\* the service goes through; embedding_ok is _create_embedding not raising.
\* collection.add of a stored id keeps the stored document and, depending on
\* the installed chromadb, either ignores the call or raises (add_topic then
\* returns False): both outcomes are taken.
IndexTopic ==
    /\ \E topic_data \in IndexedDocuments, embedding_ok \in BOOLEAN, add_raises \in BOOLEAN :
          LET stored == \E d \in index : d.id = topic_data.id
              success == embedding_ok /\ ~(stored /\ add_raises)
          IN  /\ index' = IF success THEN add_topic(index, topic_data) ELSE index
              /\ agent_input' = topic_data
              /\ agent_env' = [kind |-> "index", operation |-> "index_topic"]
              /\ agent_result' = Returned(success)
    /\ UNCHANGED <<processing_stats, topics, cross_similarity, calls, pc, request,
                   response_data, result, gen, generator_calls, check_calls, checked>>
    /\ UNCHANGED <<cvars, svars>>

\* ChromaService.upsert_topic
UpsertTopic ==
    /\ \E topic_data \in IndexedDocuments, embedding_ok \in BOOLEAN :
          /\ index' = IF embedding_ok THEN upsert_topic(index, topic_data) ELSE index
          /\ agent_input' = topic_data
          /\ agent_env' = [kind |-> "index", operation |-> "upsert_topic"]
          /\ agent_result' = Returned(embedding_ok)
    /\ UNCHANGED <<processing_stats, topics, cross_similarity, calls, pc, request,
                   response_data, result, gen, generator_calls, check_calls, checked>>
    /\ UNCHANGED <<cvars, svars>>

IndexNext == IndexTopic \/ UpsertTopic

SpecIndex == IndexInit /\ [][IndexNext]_vars

(***************************************************************************)
(* check_duplicate_advanced called by a client of the API.                 *)
(***************************************************************************)
\* request bodies: every field is a short text or empty; semester_id 0 is a
\* body without semesterId
AdvancedRequests ==
    [title : {<<>>, <<"A">>}, vn_title : {<<>>, <<"V">>}, problem : {<<>>, <<"p">>},
     context : {<<>>, <<"c">>}, content : {<<>>, <<"n">>}, description : {<<>>, <<"d">>},
     objectives : {<<>>, <<"o">>}, semester_id : {0, 1}]

AdvancedInit ==
    /\ ClassifierIdle
    /\ AgentIdle
    /\ ServiceIdle
    /\ processing_stats = InitialStats
    /\ index \in {{}, {SeedDocument}}
    /\ topics = {}
    /\ cross_similarity = 920
    /\ calls = 0
    /\ pc = "idle"
    /\ request = None
    /\ response_data = InitialResponse
    /\ result = None
    /\ gen = None
    /\ generator_calls = 0
    /\ check_calls = 0
    /\ checked = <<>>

\* one request; the handler keeps nothing from one request to the next.
\* semesters_found is the semesters table holding a semester to search.
CheckDuplicateAdvanced ==
    /\ agent_input = None
    /\ \E req \in AdvancedRequests, semesters_found \in BOOLEAN,
          llm \in LLMAnswers, query_ok \in BOOLEAN, answer \in GenAnswers :
          LET where == IF semesters_found THEN "semesterId" ELSE ""
              detection_input ==
                  advanced_detection_input(req, SimilarityThresholdDefault,
                                           req.semester_id, where)
          IN /\ agent_input' = req
             /\ agent_env' = [kind |-> "advanced", where |-> where,
                              query_content |-> full_content_of(detection_input)]
             /\ agent_result' =
                    check_duplicate_advanced(req, SimilarityThresholdDefault,
                                             req.semester_id, where, index,
                                             cross_similarity, llm, query_ok, answer)
    /\ UNCHANGED <<cvars, ovars, svars>>

AdvancedNext == CheckDuplicateAdvanced

SpecAdvanced == AdvancedInit /\ [][AdvancedNext]_vars

(***************************************************************************)
(* The version endpoints: create a version, approve one, reject one.       *)
(***************************************************************************)
MaxVersions == 3

\* TopicVersionRequest bodies of a submitter: status 1 (draft) or 2 (submitted)
VersionRequests ==
    [title : Titles, description : {<<"d">>}, objectives : {<<>>}, status : {1, 2}]

VersionsInit ==
    /\ ClassifierIdle
    /\ AgentIdle
    /\ versions = {}
    /\ inflight = <<>>
    /\ processing_stats = InitialStats
    /\ index = {}
    /\ topics = {SeedTopic}
    /\ cross_similarity = 0
    /\ calls = 0
    /\ pc = "idle"
    /\ request = None
    /\ response_data = InitialResponse
    /\ result = None
    /\ gen = None
    /\ generator_calls = 0
    /\ check_calls = 0
    /\ checked = <<>>

\* POST /topics/{topic_id}/versions
CreateTopicVersion ==
    /\ Cardinality(versions) < MaxVersions
    /\ \E topic \in topics, version_request \in VersionRequests, db_ok \in BOOLEAN :
          /\ versions' = IF db_ok
                         THEN versions \cup {new_version_row(versions, topic.Id, version_request)}
                         ELSE versions
          /\ agent_input' = [kind |-> "version", topic_id |-> topic.Id]
          /\ agent_env' = [kind |-> "create_version"]
          /\ agent_result' = Returned(db_ok)
    /\ UNCHANGED <<cvars, ovars, inflight>>

\* PUT /versions/{version_id}/approve: TopicService.approve_topic_version
ApproveTopicVersion ==
    /\ \E version_id \in 1..MaxVersions, db_ok \in BOOLEAN :
          LET success == db_ok /\ get_topic_version_by_id(versions, version_id) # {}
              approved == IF success THEN set_version_status(versions, version_id, Approved)
                          ELSE versions
          IN /\ versions' = approved
             /\ index' = IF success
                         THEN CalledWithoutAwait(index,
                                  index_approved_version(index, approved, topics, version_id))
                         ELSE index
             /\ agent_input' = [kind |-> "version", version_id |-> version_id]
             /\ agent_env' = [kind |-> "approve"]
             /\ agent_result' = Returned(success)
    /\ UNCHANGED <<processing_stats, topics, cross_similarity, calls, pc, request,
                   response_data, result, gen, generator_calls, check_calls, checked>>
    /\ UNCHANGED <<cvars, inflight>>

\* PUT /versions/{version_id}/reject: TopicService.reject_topic_version
RejectTopicVersion ==
    /\ \E version_id \in 1..MaxVersions, db_ok \in BOOLEAN :
          LET success == db_ok /\ get_topic_version_by_id(versions, version_id) # {}
          IN /\ versions' = IF success THEN set_version_status(versions, version_id, Rejected)
                            ELSE versions
             /\ agent_input' = [kind |-> "version", version_id |-> version_id]
             /\ agent_env' = [kind |-> "reject"]
             /\ agent_result' = Returned(success)
    /\ UNCHANGED <<cvars, ovars, inflight>>

VersionsNext == CreateTopicVersion \/ ApproveTopicVersion \/ RejectTopicVersion

SpecVersions == VersionsInit /\ [][VersionsNext]_vars

(***************************************************************************)
(* Several calls of MainAgent.process on the one MainAgent, interleaved at *)
(* their await points.  Between two awaits a coroutine runs alone on the   *)
(* event loop.                                                             *)
(***************************************************************************)
MaxConcurrent == 2

\* what a call holds in its own frame: where it stands, its request and its
\* response_data
Frame(position, input, response) ==
    [pc |-> position, request |-> input, response_data |-> response]

\* the requests the interleaved calls are given
ConcurrentRequests ==
    {input \in Requests : input.auto_modify /\ ~input.get_suggestions}

Suspended(c, position) == c \in DOMAIN inflight /\ inflight[c].pc = position

\* the frame of a call that returned is gone
Drop(frames, c) == [i \in 1..(Len(frames) - 1) |-> IF i < c THEN frames[i] ELSE frames[i + 1]]

ConcurrentInit ==
    /\ ClassifierIdle
    /\ AgentIdle
    /\ versions = {}
    /\ inflight = <<>>
    /\ processing_stats = InitialStats
    /\ \/ index = {} /\ topics = {}
       \/ index = {SeedDocument} /\ topics = {SeedTopic}
    /\ cross_similarity = 920
    /\ calls = 0
    /\ pc = "idle"
    /\ request = None
    /\ response_data = InitialResponse
    /\ result = None
    /\ gen = None
    /\ generator_calls = 0
    /\ check_calls = 0
    /\ checked = <<>>

\* mutant: the call is not counted in total_requests
BeginCall_uncounted ==
    /\ calls < MaxConcurrent
    /\ calls' = calls + 1
    /\ processing_stats' = processing_stats
    /\ \/ \E input \in ConcurrentRequests :
             /\ inflight' = Append(inflight, Frame("suggestions", input, InitialResponse))
             /\ result' = result
       \/ /\ inflight' = inflight
          /\ result' = AgentFailure("ValidationError")
    /\ UNCHANGED <<index, topics, cross_similarity, pc, request, response_data, gen,
                   generator_calls, check_calls, checked, versions>>
    /\ UNCHANGED <<cvars, dvars>>

\* lines 45-64 of a new call, up to its first await
BeginCall ==
    /\ calls < MaxConcurrent
    /\ calls' = calls + 1
    /\ processing_stats' = Bump(processing_stats, "total_requests")
    /\ \/ \E input \in ConcurrentRequests :
             /\ inflight' = Append(inflight, Frame("suggestions", input, InitialResponse))
             /\ result' = result
       \/ /\ inflight' = inflight
          /\ result' = AgentFailure("ValidationError")
    /\ UNCHANGED <<index, topics, cross_similarity, pc, request, response_data, gen,
                   generator_calls, check_calls, checked, versions>>
    /\ UNCHANGED <<cvars, dvars>>

\* lines 66-73 of call c
ResumeSuggestions(c) ==
    /\ Suspended(c, "suggestions")
    /\ \E suggestions_ok \in BOOLEAN :
          LET frame == inflight[c]
              response ==
                  IF ~frame.request.get_suggestions THEN frame.response_data
                  ELSE IF suggestions_ok
                       THEN Say([frame.response_data EXCEPT !.suggestions = Str("suggestions")],
                                "suggestions")
                       ELSE Say(frame.response_data, "suggestions_error")
          IN inflight' = [inflight EXCEPT ![c] = Frame("check", frame.request, response)]
    /\ UNCHANGED <<cvars, ovars, dvars, versions>>

\* lines 75-120 of call c
ResumeCheckDuplicates(c) ==
    /\ Suspended(c, "check")
    /\ \E llm \in LLMAnswers, query_ok \in BOOLEAN, answer \in GenAnswers :
          LET frame == inflight[c]
              out == check_duplicates_step(frame.request, frame.request.topic_request,
                                           frame.response_data, processing_stats, index,
                                           cross_similarity, llm, query_ok, answer)
          IN /\ inflight' = [inflight EXCEPT ![c] =
                                Frame("create",
                                      [frame.request EXCEPT !.topic_request = out.topic_request],
                                      out.response)]
             /\ processing_stats' = out.stats
    /\ UNCHANGED <<index, topics, cross_similarity, calls, pc, request, response_data,
                   result, gen, generator_calls, check_calls, checked, versions>>
    /\ UNCHANGED <<cvars, dvars>>

\* lines 122-129 and 135-136 of call c
ResumeCreateTopic(c) ==
    /\ Suspended(c, "create")
    /\ \E db_ok \in BOOLEAN :
          LET frame == inflight[c]
              topic_request == frame.request.topic_request
          IN IF db_ok /\ ~topic_exists_by_title(topics, topic_request.title,
                                                topic_request.semester_id)
             THEN LET topic == new_topic_row(topics, topic_request)
                  IN /\ topics' = topics \cup {topic}
                     /\ inflight' = [inflight EXCEPT ![c] =
                            Frame("index", frame.request,
                                  Say([frame.response_data EXCEPT !.topic_id = topic.Id,
                                                                  !.final_topic = topic,
                                                                  !.success = TRUE],
                                      "created"))]
                     /\ processing_stats' = Bump(processing_stats, "successful_submissions")
             ELSE /\ inflight' = [inflight EXCEPT ![c] =
                            Frame("return", frame.request,
                                  Say(frame.response_data, "create_error"))]
                  /\ UNCHANGED <<topics, processing_stats>>
    /\ UNCHANGED <<index, cross_similarity, calls, pc, request, response_data, result, gen,
                   generator_calls, check_calls, checked, versions>>
    /\ UNCHANGED <<cvars, dvars>>

\* lines 131-133 of call c
ResumeIndexNewTopic(c) ==
    /\ Suspended(c, "index")
    /\ \E index_ok \in BOOLEAN :
          index' = IF index_ok
                   THEN add_topic(index, new_topic_document(inflight[c].response_data.final_topic))
                   ELSE index
    /\ inflight' = [inflight EXCEPT ![c] =
                       Frame("return", inflight[c].request,
                             Say(inflight[c].response_data, "indexed"))]
    /\ UNCHANGED <<processing_stats, topics, cross_similarity, calls, pc, request,
                   response_data, result, gen, generator_calls, check_calls, checked,
                   versions>>
    /\ UNCHANGED <<cvars, dvars>>

\* lines 138-148 of call c
ReturnCall(c) ==
    /\ Suspended(c, "return")
    /\ result' = [success |-> TRUE, data |-> inflight[c].response_data, error |-> "",
                  metadata |-> processing_stats]
    /\ inflight' = Drop(inflight, c)
    /\ UNCHANGED <<processing_stats, index, topics, cross_similarity, calls, pc, request,
                   response_data, gen, generator_calls, check_calls, checked, versions>>
    /\ UNCHANGED <<cvars, dvars>>

ConcurrentNext ==
    \/ BeginCall
    \/ \E c \in 1..MaxConcurrent : ResumeSuggestions(c)
    \/ \E c \in 1..MaxConcurrent : ResumeCheckDuplicates(c)
    \/ \E c \in 1..MaxConcurrent : ResumeCreateTopic(c)
    \/ \E c \in 1..MaxConcurrent : ResumeIndexNewTopic(c)
    \/ \E c \in 1..MaxConcurrent : ReturnCall(c)

SpecConcurrent == ConcurrentInit /\ [][ConcurrentNext]_vars

(***************************************************************************)
(* Claims about the classifier and the strategist.                         *)
(***************************************************************************)
Classified == verdict # None /\ similar_topics # <<>>

SomeAtLeast(bound) == \E i \in DOMAIN similar_topics : similar_topics[i].similarity_score >= bound

\* C1: for a non-empty candidate list the classifier returns DUPLICATE_FOUND
\* if and only if the maximum similarity is >= the threshold and >= 0.8,
\* both bounds inclusive.
C1_DuplicateFoundIff ==
    Classified =>
        ((verdict.status = DuplicationStatus.DUPLICATE_FOUND)
            <=> (SomeAtLeast(threshold) /\ SomeAtLeast(800)))

\* a tie at the boundary: the maximum equals the threshold and 0.8
C1_Witness ==
    /\ Classified
    /\ threshold = 800
    /\ verdict.similarity_score = 800
    /\ verdict.status = DuplicationStatus.DUPLICATE_FOUND

\* C2: for a non-empty candidate list the classifier returns
\* POTENTIAL_DUPLICATE exactly when threshold <= max < 0.8, or max < threshold
\* and some candidate is >= 0.6; NO_DUPLICATE exactly when max < threshold and
\* no candidate is >= 0.6.
C2_PotentialAndNoDuplicateIff ==
    Classified =>
        /\ (verdict.status = DuplicationStatus.POTENTIAL_DUPLICATE)
              <=> \/ (SomeAtLeast(threshold) /\ ~SomeAtLeast(800))
                  \/ (~SomeAtLeast(threshold) /\ SomeAtLeast(600))
        /\ (verdict.status = DuplicationStatus.NO_DUPLICATE)
              <=> (~SomeAtLeast(threshold) /\ ~SomeAtLeast(600))

\* the 0.6 fallback decided: two candidates, only the second reaches 0.6
C2_Witness ==
    /\ Classified
    /\ Len(similar_topics) = 2
    /\ similar_topics[1].similarity_score < 600
    /\ similar_topics[2].similarity_score = 650
    /\ threshold = 800
    /\ verdict.status = DuplicationStatus.POTENTIAL_DUPLICATE

\* C3: an empty candidate list gives NO_DUPLICATE with similarity 0.0 and no
\* similar topics, and the strategist applied to that verdict gives
\* enhancement_only.
C3_EmptyCandidates ==
    (verdict # None /\ similar_topics = <<>>) =>
        /\ verdict.status = DuplicationStatus.NO_DUPLICATE
        /\ verdict.similarity_score = 0
        /\ verdict.similar_topics = <<>>
        /\ handed => strategy = "enhancement_only"

C3_Witness ==
    /\ similar_topics = <<>>
    /\ verdict # None
    /\ handed
    /\ duplicate_results = verdict
    /\ strategy = "enhancement_only"

\* C4: threshold monotonicity: if the candidates are DUPLICATE_FOUND at a
\* threshold t2, then at every lower threshold t1 they are DUPLICATE_FOUND or
\* POTENTIAL_DUPLICATE.
C4_ThresholdMonotone ==
    (earlier # None /\ earlier.status = DuplicationStatus.DUPLICATE_FOUND) =>
        verdict.status \in {DuplicationStatus.DUPLICATE_FOUND,
                            DuplicationStatus.POTENTIAL_DUPLICATE}

\* relaxed from 0.8 all the way to 0
C4_Witness ==
    /\ earlier # None
    /\ earlier.status = DuplicationStatus.DUPLICATE_FOUND
    /\ earlier.threshold = 800
    /\ threshold = 0
    /\ verdict.status = DuplicationStatus.DUPLICATE_FOUND

\* the strategy table, keyed by the status string
StrategyTable(status_value, similarity, count) ==
    CASE status_value = "duplicate_found" ->
             IF similarity >= 950 THEN "major_redesign"
             ELSE IF similarity >= 850 THEN "significant_changes"
             ELSE "moderate_changes"
      [] status_value = "potential_duplicate" ->
             IF count > 3 THEN "differentiation_focus" ELSE "minor_adjustments"
      [] OTHER -> "enhancement_only"

C6_HandedVerdictStrategy ==
    (handed /\ duplicate_results = verdict) =>
        strategy = StrategyTable(verdict.status.value,
                                 verdict.similarity_score,
                                 Len(verdict.similar_topics))

(***************************************************************************)
(* Claims about MainAgent.process.                                         *)
(***************************************************************************)
\* step 2 of a call that asked for the duplicate check has just finished
AfterCheck == pc = "create" /\ request.check_duplicates

\* the verdict of the detection pipeline, its query answered, for a topic
\* request against the index as it stands (the index does not change before the create step)
PipelineVerdict(topic_request) ==
    detection_pipeline(duplicate_input(topic_request), index, cross_similarity,
                       [analysis |-> "", recs |-> "some"], TRUE)

\* C7: whenever auto-modify is enabled and the first verdict of the call is
\* DUPLICATE_FOUND or POTENTIAL_DUPLICATE, the call enters Modifying: the
\* strategist is run and the Generator is invoked.
C7_ModifyBranch ==
    (/\ AfterCheck
     /\ request.auto_modify
     /\ PipelineVerdict(checked[1]).status # DuplicationStatus.NO_DUPLICATE)
        => generator_calls = 1

\* C8: when the first verdict is NO_DUPLICATE or auto_modify is false, the
\* Generator is never invoked during the call, no proposal is attached to
\* the outcome, and the reported verdict is the first verdict.
C8_SkipBranch ==
    (/\ AfterCheck
     /\ \/ ~request.auto_modify
        \/ PipelineVerdict(checked[1]).status = DuplicationStatus.NO_DUPLICATE)
        => /\ generator_calls = 0
           /\ response_data.modifications = None
           /\ response_data.duplicate_check # None
           /\ response_data.duplicate_check.status = PipelineVerdict(checked[1]).status
           /\ response_data.duplicate_check.similarity_score
                  = PipelineVerdict(checked[1]).similarity_score

C10_RecheckOnModified ==
    (/\ AfterCheck
     /\ request.auto_modify
     /\ PipelineVerdict(checked[1]).status = DuplicationStatus.DUPLICATE_FOUND
     /\ gen.kind # "raise")
        => /\ response_data.modifications # None
           /\ Len(checked) = 2
           /\ checked[2] = response_data.modifications.modified_topic
           /\ response_data.duplicate_check # None
           /\ response_data.duplicate_check.similarity_score
                  = PipelineVerdict(checked[2]).similarity_score

\* C11: a resolution call is read-only with respect to persistent state: no
\* step of the call changes the set of documents in the similarity index or
\* the set of topics in the repository.
C11_ReadOnly == [][index' = index /\ topics' = topics]_vars

\* the call of search_similar_topics did not return candidates because it
\* failed: the call itself raised, or the query behind it did
QueryFailed ==
    \/ CallRaisesTypeError(search_call_keywords, search_similar_topics_params)
    \/ ~agent_env.query_ok

Detected == agent_result # None /\ agent_env.kind = "detection"

\* C12: if the similarity index query fails, the duplicate check does not
\* fail its caller: it returns a successful result whose verdict is
\* NO_DUPLICATE with similarity 0.
C12_QueryFailureIsNoDuplicate ==
    (Detected /\ QueryFailed) =>
        /\ agent_result.success
        /\ agent_result.data.status = DuplicationStatus.NO_DUPLICATE
        /\ agent_result.data.similarity_score = 0

\* C13: when an exclude id is supplied, the candidate whose id equals it
\* never contributes to the verdict: the verdict is the one the other
\* documents give, and NO_DUPLICATE with similarity 0.0 when there is no
\* other document.
C13_ExcludedIdIgnored ==
    (Detected /\ agent_input.exclude_topic_id # 0) =>
        LET others == {d \in index : d.id # <<agent_input.exclude_topic_id>>}
        IN /\ agent_result.success
           /\ agent_result.data = detection_pipeline(agent_input, others, cross_similarity,
                                                     agent_env.llm, agent_env.query_ok)
           /\ others = {} =>
                 /\ agent_result.data.status = DuplicationStatus.NO_DUPLICATE
                 /\ agent_result.data.similarity_score = 0

\* C14: when a semester filter is applied and no candidate passes it, the
\* classification is the one of the unfiltered candidate list.
C14_SemesterFilterFallback ==
    (/\ Detected
     /\ agent_input.semester_id # 0
     /\ index # {}
     /\ \A d \in index : d.semester_id # agent_input.semester_id) =>
        /\ agent_result.success
        /\ agent_result.data =
               detection_pipeline([agent_input EXCEPT !.semester_id = 0], index,
                                  cross_similarity, agent_env.llm, agent_env.query_ok)

(***************************************************************************)
(* Claims about TopicModificationAgent.process.                            *)
(***************************************************************************)
Modified == agent_result # None /\ agent_env.kind = "modification"

\* C15: for every raw Generator output, the validated proposal has a
\* non-empty modifications_made list and a non-empty rationale, whether the
\* keys are absent from the output or present with an empty value.
C15_NonEmptyModificationsAndRationale ==
    (Modified /\ agent_result.success) =>
        /\ agent_result.data.modifications_made # <<>>
        /\ agent_result.data.rationale # <<>>

\* the proposal Scenario D expects for an original topic: the title with a
\* differentiating prefix, the other fields of the original
ExpectedFallback(original_topic) ==
    [title |-> <<"he_thong">> \o original_topic.title,
     description |-> original_topic.description,
     objectives |-> original_topic.objectives \o <<"dac_biet_chu_trong">>,
     problem |-> IF original_topic.problem # <<>> THEN original_topic.problem
                 ELSE <<"van_de", "he_thong">> \o original_topic.title,
     context |-> original_topic.context,
     content |-> original_topic.content,
     semester_id |-> original_topic.semester_id]

\* C16: when the Generator's output holds no recoverable JSON object, the
\* modification step succeeds and its proposal is the deterministic fallback,
\* a function of the original topic alone, with non-empty modifications_made
\* and rationale.
C16_FallbackOnUnparsable ==
    (Modified /\ agent_env.answer.kind = "text") =>
        /\ agent_result.success
        /\ agent_result.data.modified_topic = ExpectedFallback(agent_input.original_topic)
        /\ agent_result.data.modifications_made # <<>>
        /\ agent_result.data.rationale # <<>>

\* C17: if the Generator call itself fails, the modification step falls back
\* to the deterministic fallback proposal and returns successfully.
C17_FallbackOnGeneratorFailure ==
    (Modified /\ agent_env.answer.kind = "raise") =>
        /\ agent_result.success
        /\ agent_result.data.modified_topic = ExpectedFallback(agent_input.original_topic)

BackfilledFields == {"title", "description", "objectives", "problem", "context", "content"}

\* C18: each of title, description, objectives, problem, context and content
\* that is absent or empty in the Generator's output has, in the validated
\* proposal, the value of the same field of the original topic.
C18_BackfillFromOriginal ==
    (Modified /\ agent_env.answer.kind = "json" /\ agent_result.success) =>
        \A key \in BackfilledFields :
            Falsy(agent_env.answer.object[key]) =>
                agent_result.data.modified_topic[key] = agent_input.original_topic[key]

(***************************************************************************)
(* Claims about the termination of MainAgent.process.                      *)
(***************************************************************************)
Member(message, messages) == \E i \in DOMAIN messages : messages[i] = message

\* the call has returned a structured outcome
Done == pc = "idle" /\ result # None /\ result.success /\ result.data = response_data

C20_LatestContentOnly ==
    /\ \A d, e \in index : d.id = e.id => d = e
    /\ (agent_env.kind = "index" /\ agent_result.value) =>
           {d \in index : d.id = agent_input.id} = {agent_input}

(***************************************************************************)
(* Claims about the comparison string.                                     *)
(***************************************************************************)
\* the non-empty fields of a request in the fixed order, joined by single
\* spaces
FieldsInOrder(req) ==
    req.title \o req.vn_title \o req.problem \o req.context \o req.content
        \o req.description \o req.objectives

\* C21: the comparison string built for a topic consists of exactly its
\* non-empty fields, in the order title, localized title, problem, context,
\* content body, description, objectives, joined by single spaces with
\* nothing else added; a topic whose fields are all empty gives the empty
\* string.
C21_ComparisonString ==
    agent_env.kind = "advanced" => agent_env.query_content = FieldsInOrder(agent_input)

(***************************************************************************)
(* Claims about topic versions.                                            *)
(***************************************************************************)
\* C22: after any sequence of create-version, approve and reject
\* operations, each topic has at most one version whose status is Approved.
C22_OneApprovedVersion ==
    \A t \in topics :
        Cardinality({v \in versions : v.TopicId = t.Id /\ v.IsActive /\ v.Status = Approved}) <= 1

\* approve_topic_version has just succeeded for this version
ApproveSucceeded(version_id) ==
    /\ agent_env.kind = "approve"
    /\ agent_result.value
    /\ agent_input.version_id = version_id

\* the index holds a document of this version
VersionIndexed(version_id) ==
    \E d \in index : Len(d.id) = 2 /\ d.id[2] = version_id

\* C23: whenever approve_topic_version succeeds for a version, that version
\* is in the similarity index from the return of the call on, so that a later
\* duplicate check can return it.  approve_topic_version makes the call that
\* indexes the version itself, and nothing else indexes a version afterwards.
C23_ApprovedIsIndexed ==
    \A version_id \in 1..MaxVersions :
        ApproveSucceeded(version_id) => VersionIndexed(version_id)

NearDupFallbackUsed == ~SomeAtLeast(threshold) /\ SomeAtLeast(NearDuplicate)

\* C25: the near-duplicate fallback affects only the candidates used for the
\* recommendations: when it is used, the verdict's status and similarity are
\* those of a list none of whose candidates reaches the threshold
\* (POTENTIAL_DUPLICATE, since a candidate reaches 0.6, and the highest
\* score), never DUPLICATE_FOUND.
C25_NearDupFallbackFrame ==
    (Classified /\ NearDupFallbackUsed) =>
        /\ verdict.status = DuplicationStatus.POTENTIAL_DUPLICATE
        /\ verdict.message = "similar"
        /\ SomeAtLeast(verdict.similarity_score)
        /\ ~SomeAtLeast(verdict.similarity_score + 1)

\* the fallback was used and its candidates gave recommendations
C25_Witness ==
    /\ Classified
    /\ NearDupFallbackUsed
    /\ verdict.enhanced
    /\ verdict.recommendations = "fallback_high"

(***************************************************************************)
(* Claims about the filters of DuplicateDetectionAgent.process.            *)
(***************************************************************************)
\* the candidates the index returns for the call
Returned_candidates ==
    search_similar_topics(index, cross_similarity, full_content_of(agent_input),
                          NResults, CandidateFloor, agent_env.query_ok)

\* C26: when no exclude id is supplied, the candidates dropped before the
\* classification are exactly those whose similarity is >= 0.999 and whose
\* stored title equals the proposal's title: the verdict is the one of the
\* remaining candidates, a same-title candidate below 0.999 and a >= 0.999
\* candidate with another title included.
C26_HeuristicSelfMatch ==
    (Detected /\ agent_input.exclude_topic_id = 0) =>
        LET kept == SelectSeq(Returned_candidates, LAMBDA t :
                        ~(t.similarity_score >= SelfMatchSimilarity
                          /\ t.title = agent_input.topic_title))
        IN /\ agent_result.success
           /\ agent_result.data =
                  analyze_similarity_results(filter_semester(kept, agent_input),
                                             agent_input.threshold, agent_env.llm)

\* C28: the duplicate check returns a successful result carrying a verdict
\* for every non-empty candidate list the index returns, whether the ids
\* are plain ('1') or composite ('2_1').
C28_VerdictForEveryIdForm ==
    (Detected /\ index # {} /\ agent_env.query_ok /\ Returned_candidates # <<>>) =>
        /\ agent_result.success
        /\ agent_result.data.kind = "verdict"

\* C29: when the request carries a semester id and a candidate left after
\* the exclusion has that semester id, the verdict is the one of the
\* same-semester candidates alone, however similar the others are.
C29_OtherSemestersExcluded ==
    LET remaining == exclude_self(Returned_candidates, agent_input)
        same == SelectSeq(remaining, LAMBDA t : t.semester_id = agent_input.semester_id)
    IN (Detected /\ agent_input.semester_id # 0 /\ same # <<>>) =>
           /\ agent_result.success
           /\ agent_result.data =
                  analyze_similarity_results(same, agent_input.threshold, agent_env.llm)

(***************************************************************************)
(* Claims about the outcome of MainAgent.process.                          *)
(***************************************************************************)
\* C27: when a modification ran (a DUPLICATE_FOUND first verdict with
\* auto-modify and a Generator that answers), the improvement reported in
\* the outcome equals the first verdict's similarity minus the similarity of
\* the recheck verdict.
C27_ImprovementIsDifference ==
    (/\ AfterCheck
     /\ request.auto_modify
     /\ PipelineVerdict(checked[1]).status = DuplicationStatus.DUPLICATE_FOUND
     /\ gen.kind # "raise")
        => /\ response_data.modifications # None
           /\ response_data.duplicate_check # None
           /\ response_data.modifications.similarity_improvement
                  = PipelineVerdict(checked[1]).similarity_score
                        - response_data.duplicate_check.similarity_score

(***************************************************************************)
(* Claims about the statistics of the shared MainAgent.                    *)
(***************************************************************************)
Counters == {"total_requests", "successful_submissions", "duplicates_found",
             "modifications_made"}

====
